---- MODULE Spec2Model ----
(***************************************************************************)
(* The two lookup plugins of the collection, oci_secret and                *)
(* oci_compute_instance_credentials, as one state machine.  A run of       *)
(* LookupModule.run is cut at its external calls: option validation,       *)
(* authentication-context resolution, one service call per term (and one   *)
(* bundle fetch per listed secret), and the final join/return.             *)
(*                                                                         *)
(* Python strings are sequences of character codes, so that str.lower(),   *)
(* base64 decoding, UTF-8 decoding and ''.join are computed, not assumed.  *)
(* A Python value is a record [type, val]; val is the character sequence   *)
(* of a str, <<1>>/<<0>> for a bool and <<>> otherwise.                    *)
(***************************************************************************)
EXTENDS Integers, Sequences, FiniteSets, TLC

VARIABLES
    flavor,        \* which plugin runs: "secret" or "instance"
    kwargs,        \* keyword options of the call (function: present keys -> value)
    environ,       \* process environment (function: present names -> str)
    terms,         \* positional input, the identifiers
    pc,            \* position inside run()
    missing,       \* local `missing` (lowered on_missing)
    denied,        \* local `denied` (lowered on_denied)
    oci_config,    \* local `oci_config`
    signer,        \* local `signer`
    profile_name,  \* profile_name handed to config.from_file
    i,             \* index of the term the for-loop is at
    secrets_list,  \* oci_secret: the list returned for the current term
    j,             \* oci_secret: index into secrets_list
    secrets,       \* oci_secret: result list
    credentials,   \* instance lookup: result list
    warnings,      \* what self._display.warning was called with
    outcome,       \* how run() ended: returned list or escaped exception
    listed,        \* per processed term, what the service answered
    file_reads,    \* number of config.from_file calls
    signers_built, \* number of signer constructions
    service_calls  \* number of calls issued to the remote service

vars == <<flavor, kwargs, environ, terms, pc, missing, denied, oci_config,
          signer, profile_name, i, secrets_list, j, secrets, credentials,
          warnings, outcome, listed, file_reads, signers_built, service_calls>>

\* Bound: the longest list of terms a run is given.
MaxTerms == 2

(***************************************************************************)
(* Python values                                                           *)
(***************************************************************************)
Str(s) == [type |-> "str", val |-> s]
NoneVal == [type |-> "NoneType", val |-> <<>>]
TrueVal == [type |-> "bool", val |-> <<1>>]
FalseVal == [type |-> "bool", val |-> <<0>>]
InstanceCredentialsObj == [type |-> "InstanceCredentials", val |-> <<>>]

\* bool(v) for the values above
Truthy(v) ==
    CASE v.type = "bool" -> v.val = <<1>>
      [] v.type = "str" -> v.val /= <<>>
      [] v.type = "NoneType" -> FALSE
      [] OTHER -> TRUE

\* string literals of the source, as character codes
S_error == <<101, 114, 114, 111, 114>>
S_warn == <<119, 97, 114, 110>>
S_skip == <<115, 107, 105, 112>>
S_DEFAULT == <<68, 69, 70, 65, 85, 76, 84>>
S_api_key == <<97, 112, 105, 95, 107, 101, 121>>
S_instance_principal ==
    <<105, 110, 115, 116, 97, 110, 99, 101, 95,
      112, 114, 105, 110, 99, 105, 112, 97, 108>>

\* further strings the inputs are drawn from
S_Warn == <<87, 97, 114, 110>>                       \* "Warn"
S_SKIP == <<83, 75, 73, 80>>                         \* "SKIP"
S_bogus == <<98, 111, 103, 117, 115>>                \* "bogus"
S_SKelvinIP == <<83, 8490, 73, 80>>                  \* "S", U+212A KELVIN SIGN, "IP"
S_AlphaSigma == <<913, 931>>                         \* U+0391 ALPHA, U+03A3 SIGMA
S_security_token ==                                  \* "security_token"
    <<115, 101, 99, 117, 114, 105, 116, 121, 95, 116, 111, 107, 101, 110>>
S_prod == <<112, 114, 111, 100>>                     \* "prod"
S_envp == <<101, 110, 118, 112>>                     \* "envp"
S_user == <<117>>                                    \* "u"
S_pass == <<112, 119>>                               \* "pw"

\* str.lower: the code points with a one-character lower case other than
\* themselves, as <<first, last, step, offset>>: first, first + step, ...,
\* last each lower to themselves plus offset (Unicode 14.0.0)
LowerRanges ==
    {<<65, 90, 1, 32>>, <<192, 214, 1, 32>>, <<216, 222, 1, 32>>,
     <<256, 302, 2, 1>>, <<306, 310, 2, 1>>, <<313, 327, 2, 1>>,
     <<330, 374, 2, 1>>, <<376, 376, 1, -121>>, <<377, 381, 2, 1>>,
     <<385, 385, 1, 210>>, <<386, 388, 2, 1>>, <<390, 390, 1, 206>>,
     <<391, 391, 1, 1>>, <<393, 394, 1, 205>>, <<395, 395, 1, 1>>,
     <<398, 398, 1, 79>>, <<399, 399, 1, 202>>, <<400, 400, 1, 203>>,
     <<401, 401, 1, 1>>, <<403, 403, 1, 205>>, <<404, 404, 1, 207>>,
     <<406, 406, 1, 211>>, <<407, 407, 1, 209>>, <<408, 408, 1, 1>>,
     <<412, 412, 1, 211>>, <<413, 413, 1, 213>>, <<415, 415, 1, 214>>,
     <<416, 420, 2, 1>>, <<422, 422, 1, 218>>, <<423, 423, 1, 1>>,
     <<425, 425, 1, 218>>, <<428, 428, 1, 1>>, <<430, 430, 1, 218>>,
     <<431, 431, 1, 1>>, <<433, 434, 1, 217>>, <<435, 437, 2, 1>>,
     <<439, 439, 1, 219>>, <<440, 440, 1, 1>>, <<444, 444, 1, 1>>,
     <<452, 452, 1, 2>>, <<453, 453, 1, 1>>, <<455, 455, 1, 2>>,
     <<456, 456, 1, 1>>, <<458, 458, 1, 2>>, <<459, 475, 2, 1>>,
     <<478, 494, 2, 1>>, <<497, 497, 1, 2>>, <<498, 500, 2, 1>>,
     <<502, 502, 1, -97>>, <<503, 503, 1, -56>>, <<504, 542, 2, 1>>,
     <<544, 544, 1, -130>>, <<546, 562, 2, 1>>, <<570, 570, 1, 10795>>,
     <<571, 571, 1, 1>>, <<573, 573, 1, -163>>, <<574, 574, 1, 10792>>,
     <<577, 577, 1, 1>>, <<579, 579, 1, -195>>, <<580, 580, 1, 69>>,
     <<581, 581, 1, 71>>, <<582, 590, 2, 1>>, <<880, 882, 2, 1>>,
     <<886, 886, 1, 1>>, <<895, 895, 1, 116>>, <<902, 902, 1, 38>>,
     <<904, 906, 1, 37>>, <<908, 908, 1, 64>>, <<910, 911, 1, 63>>,
     <<913, 929, 1, 32>>, <<931, 939, 1, 32>>, <<975, 975, 1, 8>>,
     <<984, 1006, 2, 1>>, <<1012, 1012, 1, -60>>, <<1015, 1015, 1, 1>>,
     <<1017, 1017, 1, -7>>, <<1018, 1018, 1, 1>>, <<1021, 1023, 1, -130>>,
     <<1024, 1039, 1, 80>>, <<1040, 1071, 1, 32>>, <<1120, 1152, 2, 1>>,
     <<1162, 1214, 2, 1>>, <<1216, 1216, 1, 15>>, <<1217, 1229, 2, 1>>,
     <<1232, 1326, 2, 1>>, <<1329, 1366, 1, 48>>, <<4256, 4293, 1, 7264>>,
     <<4295, 4295, 1, 7264>>, <<4301, 4301, 1, 7264>>, <<5024, 5103, 1, 38864>>,
     <<5104, 5109, 1, 8>>, <<7312, 7354, 1, -3008>>, <<7357, 7359, 1, -3008>>,
     <<7680, 7828, 2, 1>>, <<7838, 7838, 1, -7615>>, <<7840, 7934, 2, 1>>,
     <<7944, 7951, 1, -8>>, <<7960, 7965, 1, -8>>, <<7976, 7983, 1, -8>>,
     <<7992, 7999, 1, -8>>, <<8008, 8013, 1, -8>>, <<8025, 8031, 2, -8>>,
     <<8040, 8047, 1, -8>>, <<8072, 8079, 1, -8>>, <<8088, 8095, 1, -8>>,
     <<8104, 8111, 1, -8>>, <<8120, 8121, 1, -8>>, <<8122, 8123, 1, -74>>,
     <<8124, 8124, 1, -9>>, <<8136, 8139, 1, -86>>, <<8140, 8140, 1, -9>>,
     <<8152, 8153, 1, -8>>, <<8154, 8155, 1, -100>>, <<8168, 8169, 1, -8>>,
     <<8170, 8171, 1, -112>>, <<8172, 8172, 1, -7>>, <<8184, 8185, 1, -128>>,
     <<8186, 8187, 1, -126>>, <<8188, 8188, 1, -9>>, <<8486, 8486, 1, -7517>>,
     <<8490, 8490, 1, -8383>>, <<8491, 8491, 1, -8262>>, <<8498, 8498, 1, 28>>,
     <<8544, 8559, 1, 16>>, <<8579, 8579, 1, 1>>, <<9398, 9423, 1, 26>>,
     <<11264, 11311, 1, 48>>, <<11360, 11360, 1, 1>>, <<11362, 11362, 1, -10743>>,
     <<11363, 11363, 1, -3814>>, <<11364, 11364, 1, -10727>>, <<11367, 11371, 2, 1>>,
     <<11373, 11373, 1, -10780>>, <<11374, 11374, 1, -10749>>, <<11375, 11375, 1, -10783>>,
     <<11376, 11376, 1, -10782>>, <<11378, 11378, 1, 1>>, <<11381, 11381, 1, 1>>,
     <<11390, 11391, 1, -10815>>, <<11392, 11490, 2, 1>>, <<11499, 11501, 2, 1>>,
     <<11506, 11506, 1, 1>>, <<42560, 42604, 2, 1>>, <<42624, 42650, 2, 1>>,
     <<42786, 42798, 2, 1>>, <<42802, 42862, 2, 1>>, <<42873, 42875, 2, 1>>,
     <<42877, 42877, 1, -35332>>, <<42878, 42886, 2, 1>>, <<42891, 42891, 1, 1>>,
     <<42893, 42893, 1, -42280>>, <<42896, 42898, 2, 1>>, <<42902, 42920, 2, 1>>,
     <<42922, 42922, 1, -42308>>, <<42923, 42923, 1, -42319>>, <<42924, 42924, 1, -42315>>,
     <<42925, 42925, 1, -42305>>, <<42926, 42926, 1, -42308>>, <<42928, 42928, 1, -42258>>,
     <<42929, 42929, 1, -42282>>, <<42930, 42930, 1, -42261>>, <<42931, 42931, 1, 928>>,
     <<42932, 42946, 2, 1>>, <<42948, 42948, 1, -48>>, <<42949, 42949, 1, -42307>>,
     <<42950, 42950, 1, -35384>>, <<42951, 42953, 2, 1>>, <<42960, 42960, 1, 1>>,
     <<42966, 42968, 2, 1>>, <<42997, 42997, 1, 1>>, <<65313, 65338, 1, 32>>,
     <<66560, 66599, 1, 40>>, <<66736, 66771, 1, 40>>, <<66928, 66938, 1, 39>>,
     <<66940, 66954, 1, 39>>, <<66956, 66962, 1, 39>>, <<66964, 66965, 1, 39>>,
     <<68736, 68786, 1, 64>>, <<71840, 71871, 1, 32>>, <<93760, 93791, 1, 32>>,
     <<125184, 125217, 1, 34>>}

\* the case-ignorable code points, as <<first, last>>
CaseIgnorableRanges ==
    {<<39, 39>>, <<46, 46>>, <<58, 58>>, <<94, 94>>, <<96, 96>>,
     <<168, 168>>, <<173, 173>>, <<175, 175>>, <<180, 180>>, <<183, 184>>,
     <<688, 879>>, <<884, 885>>, <<890, 890>>, <<900, 901>>, <<903, 903>>,
     <<1155, 1161>>, <<1369, 1369>>, <<1375, 1375>>, <<1425, 1469>>, <<1471, 1471>>,
     <<1473, 1474>>, <<1476, 1477>>, <<1479, 1479>>, <<1524, 1524>>, <<1536, 1541>>,
     <<1552, 1562>>, <<1564, 1564>>, <<1600, 1600>>, <<1611, 1631>>, <<1648, 1648>>,
     <<1750, 1757>>, <<1759, 1768>>, <<1770, 1773>>, <<1807, 1807>>, <<1809, 1809>>,
     <<1840, 1866>>, <<1958, 1968>>, <<2027, 2037>>, <<2042, 2042>>, <<2045, 2045>>,
     <<2070, 2093>>, <<2137, 2139>>, <<2184, 2184>>, <<2192, 2193>>, <<2200, 2207>>,
     <<2249, 2306>>, <<2362, 2362>>, <<2364, 2364>>, <<2369, 2376>>, <<2381, 2381>>,
     <<2385, 2391>>, <<2402, 2403>>, <<2417, 2417>>, <<2433, 2433>>, <<2492, 2492>>,
     <<2497, 2500>>, <<2509, 2509>>, <<2530, 2531>>, <<2558, 2558>>, <<2561, 2562>>,
     <<2620, 2620>>, <<2625, 2626>>, <<2631, 2632>>, <<2635, 2637>>, <<2641, 2641>>,
     <<2672, 2673>>, <<2677, 2677>>, <<2689, 2690>>, <<2748, 2748>>, <<2753, 2757>>,
     <<2759, 2760>>, <<2765, 2765>>, <<2786, 2787>>, <<2810, 2815>>, <<2817, 2817>>,
     <<2876, 2876>>, <<2879, 2879>>, <<2881, 2884>>, <<2893, 2893>>, <<2901, 2902>>,
     <<2914, 2915>>, <<2946, 2946>>, <<3008, 3008>>, <<3021, 3021>>, <<3072, 3072>>,
     <<3076, 3076>>, <<3132, 3132>>, <<3134, 3136>>, <<3142, 3144>>, <<3146, 3149>>,
     <<3157, 3158>>, <<3170, 3171>>, <<3201, 3201>>, <<3260, 3260>>, <<3263, 3263>>,
     <<3270, 3270>>, <<3276, 3277>>, <<3298, 3299>>, <<3328, 3329>>, <<3387, 3388>>,
     <<3393, 3396>>, <<3405, 3405>>, <<3426, 3427>>, <<3457, 3457>>, <<3530, 3530>>,
     <<3538, 3540>>, <<3542, 3542>>, <<3633, 3633>>, <<3636, 3642>>, <<3654, 3662>>,
     <<3761, 3761>>, <<3764, 3772>>, <<3782, 3782>>, <<3784, 3789>>, <<3864, 3865>>,
     <<3893, 3893>>, <<3895, 3895>>, <<3897, 3897>>, <<3953, 3966>>, <<3968, 3972>>,
     <<3974, 3975>>, <<3981, 3991>>, <<3993, 4028>>, <<4038, 4038>>, <<4141, 4144>>,
     <<4146, 4151>>, <<4153, 4154>>, <<4157, 4158>>, <<4184, 4185>>, <<4190, 4192>>,
     <<4209, 4212>>, <<4226, 4226>>, <<4229, 4230>>, <<4237, 4237>>, <<4253, 4253>>,
     <<4348, 4348>>, <<4957, 4959>>, <<5906, 5908>>, <<5938, 5939>>, <<5970, 5971>>,
     <<6002, 6003>>, <<6068, 6069>>, <<6071, 6077>>, <<6086, 6086>>, <<6089, 6099>>,
     <<6103, 6103>>, <<6109, 6109>>, <<6155, 6159>>, <<6211, 6211>>, <<6277, 6278>>,
     <<6313, 6313>>, <<6432, 6434>>, <<6439, 6440>>, <<6450, 6450>>, <<6457, 6459>>,
     <<6679, 6680>>, <<6683, 6683>>, <<6742, 6742>>, <<6744, 6750>>, <<6752, 6752>>,
     <<6754, 6754>>, <<6757, 6764>>, <<6771, 6780>>, <<6783, 6783>>, <<6823, 6823>>,
     <<6832, 6862>>, <<6912, 6915>>, <<6964, 6964>>, <<6966, 6970>>, <<6972, 6972>>,
     <<6978, 6978>>, <<7019, 7027>>, <<7040, 7041>>, <<7074, 7077>>, <<7080, 7081>>,
     <<7083, 7085>>, <<7142, 7142>>, <<7144, 7145>>, <<7149, 7149>>, <<7151, 7153>>,
     <<7212, 7219>>, <<7222, 7223>>, <<7288, 7293>>, <<7376, 7378>>, <<7380, 7392>>,
     <<7394, 7400>>, <<7405, 7405>>, <<7412, 7412>>, <<7416, 7417>>, <<7468, 7530>>,
     <<7544, 7544>>, <<7579, 7679>>, <<8125, 8125>>, <<8127, 8129>>, <<8141, 8143>>,
     <<8157, 8159>>, <<8173, 8175>>, <<8189, 8190>>, <<8203, 8207>>, <<8216, 8217>>,
     <<8228, 8228>>, <<8231, 8231>>, <<8234, 8238>>, <<8288, 8292>>, <<8294, 8303>>,
     <<8305, 8305>>, <<8319, 8319>>, <<8336, 8348>>, <<8400, 8432>>, <<11388, 11389>>,
     <<11503, 11505>>, <<11631, 11631>>, <<11647, 11647>>, <<11744, 11775>>, <<11823, 11823>>,
     <<12293, 12293>>, <<12330, 12333>>, <<12337, 12341>>, <<12347, 12347>>, <<12441, 12446>>,
     <<12540, 12542>>, <<40981, 40981>>, <<42232, 42237>>, <<42508, 42508>>, <<42607, 42610>>,
     <<42612, 42621>>, <<42623, 42623>>, <<42652, 42655>>, <<42736, 42737>>, <<42752, 42785>>,
     <<42864, 42864>>, <<42888, 42890>>, <<42994, 42996>>, <<43000, 43001>>, <<43010, 43010>>,
     <<43014, 43014>>, <<43019, 43019>>, <<43045, 43046>>, <<43052, 43052>>, <<43204, 43205>>,
     <<43232, 43249>>, <<43263, 43263>>, <<43302, 43309>>, <<43335, 43345>>, <<43392, 43394>>,
     <<43443, 43443>>, <<43446, 43449>>, <<43452, 43453>>, <<43471, 43471>>, <<43493, 43494>>,
     <<43561, 43566>>, <<43569, 43570>>, <<43573, 43574>>, <<43587, 43587>>, <<43596, 43596>>,
     <<43632, 43632>>, <<43644, 43644>>, <<43696, 43696>>, <<43698, 43700>>, <<43703, 43704>>,
     <<43710, 43711>>, <<43713, 43713>>, <<43741, 43741>>, <<43756, 43757>>, <<43763, 43764>>,
     <<43766, 43766>>, <<43867, 43871>>, <<43881, 43883>>, <<44005, 44005>>, <<44008, 44008>>,
     <<44013, 44013>>, <<64286, 64286>>, <<64434, 64450>>, <<65024, 65039>>, <<65043, 65043>>,
     <<65056, 65071>>, <<65106, 65106>>, <<65109, 65109>>, <<65279, 65279>>, <<65287, 65287>>,
     <<65294, 65294>>, <<65306, 65306>>, <<65342, 65342>>, <<65344, 65344>>, <<65392, 65392>>,
     <<65438, 65439>>, <<65507, 65507>>, <<65529, 65531>>, <<66045, 66045>>, <<66272, 66272>>,
     <<66422, 66426>>, <<67456, 67461>>, <<67463, 67504>>, <<67506, 67514>>, <<68097, 68099>>,
     <<68101, 68102>>, <<68108, 68111>>, <<68152, 68154>>, <<68159, 68159>>, <<68325, 68326>>,
     <<68900, 68903>>, <<69291, 69292>>, <<69446, 69456>>, <<69506, 69509>>, <<69633, 69633>>,
     <<69688, 69702>>, <<69744, 69744>>, <<69747, 69748>>, <<69759, 69761>>, <<69811, 69814>>,
     <<69817, 69818>>, <<69821, 69821>>, <<69826, 69826>>, <<69837, 69837>>, <<69888, 69890>>,
     <<69927, 69931>>, <<69933, 69940>>, <<70003, 70003>>, <<70016, 70017>>, <<70070, 70078>>,
     <<70089, 70092>>, <<70095, 70095>>, <<70191, 70193>>, <<70196, 70196>>, <<70198, 70199>>,
     <<70206, 70206>>, <<70367, 70367>>, <<70371, 70378>>, <<70400, 70401>>, <<70459, 70460>>,
     <<70464, 70464>>, <<70502, 70508>>, <<70512, 70516>>, <<70712, 70719>>, <<70722, 70724>>,
     <<70726, 70726>>, <<70750, 70750>>, <<70835, 70840>>, <<70842, 70842>>, <<70847, 70848>>,
     <<70850, 70851>>, <<71090, 71093>>, <<71100, 71101>>, <<71103, 71104>>, <<71132, 71133>>,
     <<71219, 71226>>, <<71229, 71229>>, <<71231, 71232>>, <<71339, 71339>>, <<71341, 71341>>,
     <<71344, 71349>>, <<71351, 71351>>, <<71453, 71455>>, <<71458, 71461>>, <<71463, 71467>>,
     <<71727, 71735>>, <<71737, 71738>>, <<71995, 71996>>, <<71998, 71998>>, <<72003, 72003>>,
     <<72148, 72151>>, <<72154, 72155>>, <<72160, 72160>>, <<72193, 72202>>, <<72243, 72248>>,
     <<72251, 72254>>, <<72263, 72263>>, <<72273, 72278>>, <<72281, 72283>>, <<72330, 72342>>,
     <<72344, 72345>>, <<72752, 72758>>, <<72760, 72765>>, <<72767, 72767>>, <<72850, 72871>>,
     <<72874, 72880>>, <<72882, 72883>>, <<72885, 72886>>, <<73009, 73014>>, <<73018, 73018>>,
     <<73020, 73021>>, <<73023, 73029>>, <<73031, 73031>>, <<73104, 73105>>, <<73109, 73109>>,
     <<73111, 73111>>, <<73459, 73460>>, <<78896, 78904>>, <<92912, 92916>>, <<92976, 92982>>,
     <<92992, 92995>>, <<94031, 94031>>, <<94095, 94111>>, <<94176, 94177>>, <<94179, 94180>>,
     <<110576, 110579>>, <<110581, 110587>>, <<110589, 110590>>, <<113821, 113822>>, <<113824, 113827>>,
     <<118528, 118573>>, <<118576, 118598>>, <<119143, 119145>>, <<119155, 119170>>, <<119173, 119179>>,
     <<119210, 119213>>, <<119362, 119364>>, <<121344, 121398>>, <<121403, 121452>>, <<121461, 121461>>,
     <<121476, 121476>>, <<121499, 121503>>, <<121505, 121519>>, <<122880, 122886>>, <<122888, 122904>>,
     <<122907, 122913>>, <<122915, 122916>>, <<122918, 122922>>, <<123184, 123197>>, <<123566, 123566>>,
     <<123628, 123631>>, <<125136, 125142>>, <<125252, 125259>>, <<127995, 127999>>, <<917505, 917505>>,
     <<917536, 917631>>, <<917760, 917999>>}

\* the cased code points that are not case-ignorable, as <<first, last>>
CasedRanges ==
    {<<65, 90>>, <<97, 122>>, <<170, 170>>, <<181, 181>>, <<186, 186>>,
     <<192, 214>>, <<216, 246>>, <<248, 442>>, <<444, 447>>, <<452, 659>>,
     <<661, 687>>, <<880, 883>>, <<886, 887>>, <<891, 893>>, <<895, 895>>,
     <<902, 902>>, <<904, 906>>, <<908, 908>>, <<910, 929>>, <<931, 1013>>,
     <<1015, 1153>>, <<1162, 1327>>, <<1329, 1366>>, <<1376, 1416>>, <<4256, 4293>>,
     <<4295, 4295>>, <<4301, 4301>>, <<4304, 4346>>, <<4349, 4351>>, <<5024, 5109>>,
     <<5112, 5117>>, <<7296, 7304>>, <<7312, 7354>>, <<7357, 7359>>, <<7424, 7467>>,
     <<7531, 7543>>, <<7545, 7578>>, <<7680, 7957>>, <<7960, 7965>>, <<7968, 8005>>,
     <<8008, 8013>>, <<8016, 8023>>, <<8025, 8025>>, <<8027, 8027>>, <<8029, 8029>>,
     <<8031, 8061>>, <<8064, 8116>>, <<8118, 8124>>, <<8126, 8126>>, <<8130, 8132>>,
     <<8134, 8140>>, <<8144, 8147>>, <<8150, 8155>>, <<8160, 8172>>, <<8178, 8180>>,
     <<8182, 8188>>, <<8450, 8450>>, <<8455, 8455>>, <<8458, 8467>>, <<8469, 8469>>,
     <<8473, 8477>>, <<8484, 8484>>, <<8486, 8486>>, <<8488, 8488>>, <<8490, 8493>>,
     <<8495, 8500>>, <<8505, 8505>>, <<8508, 8511>>, <<8517, 8521>>, <<8526, 8526>>,
     <<8544, 8575>>, <<8579, 8580>>, <<9398, 9449>>, <<11264, 11387>>, <<11390, 11492>>,
     <<11499, 11502>>, <<11506, 11507>>, <<11520, 11557>>, <<11559, 11559>>, <<11565, 11565>>,
     <<42560, 42605>>, <<42624, 42651>>, <<42786, 42863>>, <<42865, 42887>>, <<42891, 42894>>,
     <<42896, 42954>>, <<42960, 42961>>, <<42963, 42963>>, <<42965, 42969>>, <<42997, 42998>>,
     <<43002, 43002>>, <<43824, 43866>>, <<43872, 43880>>, <<43888, 43967>>, <<64256, 64262>>,
     <<64275, 64279>>, <<65313, 65338>>, <<65345, 65370>>, <<66560, 66639>>, <<66736, 66771>>,
     <<66776, 66811>>, <<66928, 66938>>, <<66940, 66954>>, <<66956, 66962>>, <<66964, 66965>>,
     <<66967, 66977>>, <<66979, 66993>>, <<66995, 67001>>, <<67003, 67004>>, <<68736, 68786>>,
     <<68800, 68850>>, <<71840, 71903>>, <<93760, 93823>>, <<119808, 119892>>, <<119894, 119964>>,
     <<119966, 119967>>, <<119970, 119970>>, <<119973, 119974>>, <<119977, 119980>>, <<119982, 119993>>,
     <<119995, 119995>>, <<119997, 120003>>, <<120005, 120069>>, <<120071, 120074>>, <<120077, 120084>>,
     <<120086, 120092>>, <<120094, 120121>>, <<120123, 120126>>, <<120128, 120132>>, <<120134, 120134>>,
     <<120138, 120144>>, <<120146, 120485>>, <<120488, 120512>>, <<120514, 120538>>, <<120540, 120570>>,
     <<120572, 120596>>, <<120598, 120628>>, <<120630, 120654>>, <<120656, 120686>>, <<120688, 120712>>,
     <<120714, 120744>>, <<120746, 120770>>, <<120772, 120779>>, <<122624, 122633>>, <<122635, 122654>>,
     <<125184, 125251>>, <<127280, 127305>>, <<127312, 127337>>, <<127344, 127369>>}

InRanges(c, rs) == \E r \in rs : c >= r[1] /\ c <= r[2]

\* chr(c).lower(), as the string it yields: below U+0080 only A-Z change,
\* U+0130 lowers to two characters, every other code point follows LowerRanges
LowerChar(c) ==
    IF c < 128 THEN (IF c >= 65 /\ c <= 90 THEN <<c + 32>> ELSE <<c>>)
    ELSE IF c = 304 THEN <<105, 775>>
    ELSE LET hit == {r \in LowerRanges :
                        c >= r[1] /\ c <= r[2] /\ (c - r[1]) % r[3] = 0}
         IN  IF hit = {} THEN <<c>> ELSE <<c + (CHOOSE r \in hit : TRUE)[4]>>

\* whether the capital sigma at s[k] is final: the nearest character before it
\* that is not case-ignorable is cased, and the nearest one after it that is
\* not case-ignorable, if any, is not cased
FinalSigma(s, k) ==
    LET before == {m \in 1..(k - 1) : ~InRanges(s[m], CaseIgnorableRanges)}
        after == {m \in (k + 1)..Len(s) : ~InRanges(s[m], CaseIgnorableRanges)}
        prev == CHOOSE m \in before : \A n \in before : n <= m
        next == CHOOSE m \in after : \A n \in after : n >= m
    IN  /\ before /= {}
        /\ InRanges(s[prev], CasedRanges)
        /\ after = {} \/ ~InRanges(s[next], CasedRanges)

RECURSIVE LowerFrom(_, _)
\* the lower case of s[k], s[k+1], ..., each character in its context
LowerFrom(s, k) ==
    IF k > Len(s) THEN <<>>
    ELSE (IF s[k] = 931
          THEN <<IF FinalSigma(s, k) THEN 962 ELSE 963>>
          ELSE LowerChar(s[k]))
         \o LowerFrom(s, k + 1)

\* str.lower()
Lower(s) == LowerFrom(s, 1)

\* dict.get(key, default)
DictGet(d, key, default) == IF key \in DOMAIN d THEN d[key] ELSE default

RECURSIVE StrJoin(_)
\* ''.join(list) for a list of str values: the character sequences, concatenated
StrJoin(l) == IF l = <<>> THEN <<>> ELSE Head(l).val \o StrJoin(Tail(l))

(***************************************************************************)
(* base64.b64decode(content).decode(), as get_secret_data applies it       *)
(***************************************************************************)
\* the base64 alphabet: character code -> sextet, 64 for a character outside it
B64Table(c) ==
    CASE c >= 65 /\ c <= 90 -> c - 65
      [] c >= 97 /\ c <= 122 -> c - 71
      [] c >= 48 /\ c <= 57 -> c + 4
      [] c = 43 -> 62
      [] c = 47 -> 63
      [] OTHER -> 64

RECURSIVE A2B(_, _, _, _, _, _)
\* binascii.a2b_base64 without strict mode: characters outside the alphabet
\* are dropped, a completed pad sequence ends the input, and a quad left
\* open at the end of the input is an error
A2B(data, k, quad_pos, leftchar, pads, out) ==
    IF k > Len(data)
    THEN [ok |-> quad_pos = 0, bytes |-> out]
    ELSE IF data[k] = 61
    THEN IF quad_pos >= 2 /\ quad_pos + pads + 1 >= 4
         THEN [ok |-> TRUE, bytes |-> out]
         ELSE A2B(data, k + 1, quad_pos, leftchar,
                  IF quad_pos >= 2 THEN pads + 1 ELSE pads, out)
    ELSE LET v == B64Table(data[k]) IN
         IF v >= 64
         THEN A2B(data, k + 1, quad_pos, leftchar, pads, out)
         ELSE CASE quad_pos = 0 -> A2B(data, k + 1, 1, v, 0, out)
                [] quad_pos = 1 ->
                     A2B(data, k + 1, 2, v % 16, 0,
                         Append(out, (leftchar * 4 + v \div 16) % 256))
                [] quad_pos = 2 ->
                     A2B(data, k + 1, 3, v % 4, 0,
                         Append(out, (leftchar * 16 + v \div 4) % 256))
                [] OTHER ->
                     A2B(data, k + 1, 0, 0, 0,
                         Append(out, (leftchar * 64 + v) % 256))

\* base64.b64decode(s) for a str s: the str is first encoded as ASCII, which
\* raises ValueError on a character above 127; a2b_base64's own failure is
\* binascii.Error
b64decode(s) ==
    IF \E k \in 1..Len(s) : s[k] > 127
    THEN [ok |-> FALSE, err |-> "ValueError", bytes |-> <<>>]
    ELSE LET r == A2B(s, 1, 0, 0, 0, <<>>) IN
         [ok |-> r.ok, err |-> IF r.ok THEN "" ELSE "binascii.Error",
          bytes |-> r.bytes]

IsCont(b) == b >= 128 /\ b <= 191

RECURSIVE Utf8(_, _, _)
\* bytes.decode(): strict UTF-8, one to four bytes per code point
Utf8(b, k, out) ==
    IF k > Len(b) THEN [ok |-> TRUE, text |-> out]
    ELSE LET c == b[k]
             n == CASE c < 128 -> 1
                    [] c >= 194 /\ c <= 223 -> 2
                    [] c >= 224 /\ c <= 239 -> 3
                    [] c >= 240 /\ c <= 244 -> 4
                    [] OTHER -> 0
         IN
         IF n = 0 \/ k + n - 1 > Len(b) THEN [ok |-> FALSE, text |-> out]
         ELSE IF n = 1 THEN Utf8(b, k + 1, Append(out, c))
         ELSE IF \E m \in 1..(n - 1) : ~IsCont(b[k + m])
              THEN [ok |-> FALSE, text |-> out]
         ELSE IF n = 2
              THEN Utf8(b, k + 2, Append(out, (c - 192) * 64 + (b[k + 1] - 128)))
         ELSE IF n = 3
              THEN IF (c = 224 /\ b[k + 1] < 160) \/ (c = 237 /\ b[k + 1] > 159)
                   THEN [ok |-> FALSE, text |-> out]
                   ELSE Utf8(b, k + 3,
                             Append(out, (c - 224) * 4096 + (b[k + 1] - 128) * 64
                                         + (b[k + 2] - 128)))
         ELSE IF (c = 240 /\ b[k + 1] < 144) \/ (c = 244 /\ b[k + 1] > 143)
              THEN [ok |-> FALSE, text |-> out]
              ELSE Utf8(b, k + 4,
                        Append(out, (c - 240) * 262144 + (b[k + 1] - 128) * 4096
                                    + (b[k + 2] - 128) * 64 + (b[k + 3] - 128)))

decode(b) == Utf8(b, 1, <<>>)

(***************************************************************************)
(* The remote service, as seen through the SDK                             *)
(***************************************************************************)
\* what get_secret_bundle answers for each stored secret
SecretBundle(id) ==
    CASE id = "s_a" ->      \* "YQ==" is base64 of "a"
           [kind |-> "response", status |-> 200, content |-> <<89, 81, 61, 61>>]
      [] id = "s_e" ->      \* "w6k=" is base64 of U+00E9 in UTF-8
           [kind |-> "response", status |-> 200, content |-> <<119, 54, 107, 61>>]
      [] id = "s_500" ->
           [kind |-> "response", status |-> 500, content |-> <<>>]
      [] id = "s_pad" ->    \* "YQ" lacks its padding
           [kind |-> "response", status |-> 200, content |-> <<89, 81>>]
      [] id = "s_nonascii" ->   \* "Y", U+00E9, "Q==": not an ASCII string
           [kind |-> "response", status |-> 200, content |-> <<89, 233, 81, 61, 61>>]
      [] id = "s_ff" ->     \* "/w==" is base64 of the byte 0xFF
           [kind |-> "response", status |-> 200, content |-> <<47, 119, 61, 61>>]
      [] OTHER ->           \* "s_denied": the fetch is refused
           [kind |-> "ServiceError", status |-> 403, content |-> <<>>]

\* what list_secrets(...).data can be for one term, or a ServiceError
ListResponses ==
    {[kind |-> "data", data |-> d] :
        d \in {<<>>, <<"s_a">>, <<"s_a", "s_e">>, <<"s_e", "s_a">>, <<"s_500">>,
               <<"s_a", "s_denied">>, <<"s_pad">>, <<"s_ff">>, <<"s_nonascii">>}}
    \cup {[kind |-> "ServiceError", data |-> <<>>]}

\* what get_windows_instance_initial_credentials(...).data can be, or a ServiceError
InstanceResponses ==
    {[kind |-> "data", data |-> d] :
        d \in {InstanceCredentialsObj, Str(S_user), Str(S_pass)}}
    \cup {[kind |-> "ServiceError", data |-> NoneVal]}

\* a call either yields a value or raises an exception of some type
Value(v) == [kind |-> "value", type |-> "", reason |-> "", value |-> v]
Raised(t, why) == [kind |-> "raise", type |-> t, reason |-> why, value |-> NoneVal]

\* get_secret_data(oci_config, secret)
get_secret_data(secret) ==
    LET resp == SecretBundle(secret)
        raw == b64decode(resp.content)
        txt == decode(raw.bytes)
    IN  IF resp.kind = "ServiceError" THEN Raised("ServiceError", "get_secret_bundle")
        ELSE IF resp.status = 200
             THEN IF ~raw.ok THEN Raised(raw.err, "b64decode")
                  ELSE IF ~txt.ok THEN Raised("UnicodeDecodeError", "decode")
                  ELSE Value(Str(txt.text))
             ELSE Raised("ValueError", "status")

(***************************************************************************)
(* Decisions of the two plugins                                            *)
(***************************************************************************)
\* faulty variant: the membership test with its sense inverted
ValidPolicyInverted(v) == v \notin {S_error, S_warn, S_skip}

\* `missing not in ['error', 'warn', 'skip']`, negated
ValidPolicy(v) == v \in {S_error, S_warn, S_skip}

\* faulty variant: the explicit option tested before the environment override
ProfileNameOptionFirst(env, kw) ==
    IF DictGet(kw, "oci_profile", NoneVal) /= NoneVal
    THEN kw["oci_profile"]
    ELSE IF "OCI_CONFIG_PROFILE" \in DOMAIN env
         THEN Str(env["OCI_CONFIG_PROFILE"])
         ELSE Str(S_DEFAULT)

\* _get_oci_config: which profile name goes to config.from_file
ProfileName(env, kw) ==
    IF "OCI_CONFIG_PROFILE" \in DOMAIN env
    THEN Str(env["OCI_CONFIG_PROFILE"])
    ELSE IF DictGet(kw, "oci_profile", NoneVal) /= NoneVal
         THEN kw["oci_profile"]
         ELSE Str(S_DEFAULT)

\* faulty variant: the credential file is loaded whatever the switch says
UsesProfileAlways(auth_type) == TRUE

\* instance lookup: `auth_type == "api_key"`, the branch that loads the file
UsesProfile(auth_type) == auth_type = S_api_key

\* instance lookup: `auth_type == "instance_principal"`, the signer branch
UsesSigner(auth_type) == auth_type = S_instance_principal

\* faulty variant: the abort tied to the wrong policy value
MissingAbortsOnWarn(lst, m) == lst = <<>> /\ m = S_warn

\* oci_secret: `not secrets_list and missing == 'error'`
MissingAborts(lst, m) == lst = <<>> /\ m = S_error

\* oci_secret: `not secrets_list and missing == 'warn'`
MissingWarns(lst, m) == lst = <<>> /\ m = S_warn

\* faulty variant: the emptiness test as if made before the append
CredentialsEmptyBeforeAppend(c) == Len(c) <= 1

\* instance lookup: `not credentials`, evaluated on the list after the append
CredentialsEmpty(c) == c = <<>>

\* faulty variant: insertion at the front
ListPrepend(l, x) == <<x>> \o l

\* list.append
ListAppend(l, x) == Append(l, x)

\* faulty variant: presence of the key instead of its truth value
JoinKeyPresent(kw) == "join" \in DOMAIN kw

\* `kwargs.get('join')` as a condition
JoinRequested(kw) == Truthy(DictGet(kw, "join", NoneVal))

\* `''.join(results)` wrapped in a one-element list; TypeError unless all are str
Joined(results) ==
    IF \E k \in 1..Len(results) : results[k].type /= "str"
    THEN Raised("TypeError", "join")
    ELSE Value(<<Str(StrJoin(results))>>)

(***************************************************************************)
(* Inputs                                                                  *)
(***************************************************************************)
Absent == [type |-> "absent", val |-> <<>>]

OnMissingChoices ==
    {Absent, Str(S_error), Str(S_Warn), Str(S_skip), Str(S_SKelvinIP),
     Str(S_bogus), NoneVal}
OnDeniedChoices ==
    {Absent, Str(S_error), Str(S_warn), Str(S_SKIP), Str(S_bogus), Str(S_AlphaSigma)}
JoinChoices == {Absent, TrueVal, FalseVal}
ProfileChoices == {Absent, Str(S_prod)}
EnvProfileChoices == {Absent, Str(S_envp)}
EnvAuthChoices ==
    {Absent, Str(S_api_key), Str(S_instance_principal), Str(S_security_token)}

\* the call's keyword arguments: only the options given are keys
MakeKwargs(om, od, jn, pr) ==
    LET given == [on_missing |-> om, on_denied |-> od, join |-> jn, oci_profile |-> pr]
    IN  [k \in {n \in DOMAIN given : given[n] /= Absent} |-> given[k]]

\* os.environ: only the variables set are keys, each a str
MakeEnviron(ep, ea) ==
    LET given == [OCI_CONFIG_PROFILE |-> ep, OCI_CLI_AUTH |-> ea]
    IN  [k \in {n \in DOMAIN given : given[n] /= Absent} |-> given[k].val]

\* "id1", "id2", ...
TermName(k) == <<105, 100, 48 + k>>
TermLists == {[k \in 1..n |-> TermName(k)] : n \in 0..MaxTerms}

EmptyConfig == [loaded |-> FALSE, profile |-> NoneVal]
NoOutcome == [kind |-> "none", type |-> "", reason |-> "", value |-> <<>>]

Init ==
    /\ flavor \in {"secret", "instance"}
    /\ \E om \in OnMissingChoices, od \in OnDeniedChoices,
          jn \in JoinChoices, pr \in ProfileChoices :
            kwargs = MakeKwargs(om, od, jn, pr)
    /\ \E ep \in EnvProfileChoices, ea \in EnvAuthChoices :
            environ = MakeEnviron(ep, ea)
    /\ terms \in TermLists
    /\ pc = "validate_missing"
    /\ missing = <<>>
    /\ denied = <<>>
    /\ oci_config = EmptyConfig
    /\ signer = "None"
    /\ profile_name = NoneVal
    /\ i = 1
    /\ secrets_list = <<>>
    /\ j = 1
    /\ secrets = <<>>
    /\ credentials = <<>>
    /\ warnings = <<>>
    /\ outcome = NoOutcome
    /\ listed = <<>>
    /\ file_reads = 0
    /\ signers_built = 0
    /\ service_calls = 0

(***************************************************************************)
(* Steps of run()                                                          *)
(***************************************************************************)
inputs == <<flavor, kwargs, environ, terms>>
auth == <<oci_config, signer, profile_name, file_reads, signers_built>>
loopvars == <<i, secrets_list, j, secrets, credentials, warnings, listed, service_calls>>

\* an exception leaves run()
Raise(type, reason) ==
    /\ pc' = "raised"
    /\ outcome' = [kind |-> "raise", type |-> type, reason |-> reason, value |-> <<>>]

\* run() returns a list
Return(lst) ==
    /\ pc' = "returned"
    /\ outcome' = [kind |-> "return", type |-> "list", reason |-> "", value |-> lst]

\* the for-loop moves past term i
NextTerm ==
    /\ i' = i + 1
    /\ pc' = IF i < Len(terms) THEN "loop" ELSE "finish"
    /\ outcome' = outcome

\* missing = kwargs.get('on_missing', 'error').lower() and its check
ValidateMissing ==
    /\ pc = "validate_missing"
    /\ LET raw == DictGet(kwargs, "on_missing", Str(S_error)) IN
       IF raw.type /= "str"
       THEN Raise("AttributeError", "lower") /\ missing' = missing
       ELSE /\ missing' = Lower(raw.val)
            /\ IF ValidPolicy(missing')
               THEN pc' = "validate_denied" /\ outcome' = outcome
               ELSE Raise("AnsibleError", "on_missing")
    /\ UNCHANGED <<inputs, denied, auth, loopvars>>

\* denied = kwargs.get('on_denied', 'error').lower() and its check
ValidateDenied ==
    /\ pc = "validate_denied"
    /\ LET raw == DictGet(kwargs, "on_denied", Str(S_error)) IN
       IF raw.type /= "str"
       THEN Raise("AttributeError", "lower") /\ denied' = denied
       ELSE /\ denied' = Lower(raw.val)
            /\ IF ValidPolicy(denied')
               THEN pc' = "resolve_auth" /\ outcome' = outcome
               ELSE Raise("AnsibleError", "on_denied")
    /\ UNCHANGED <<inputs, missing, auth, loopvars>>

\* config.from_file(file_location=~/.oci/config, profile_name=...): the SDK
\* reads the credential file and either yields the profile or raises
LoadConfig ==
    /\ profile_name' = ProfileName(environ, kwargs)
    /\ file_reads' = file_reads + 1
    /\ \E r \in {"loaded", "ConfigFileNotFound", "ProfileNotFound"} :
         IF r = "loaded"
         THEN /\ oci_config' = [loaded |-> TRUE, profile |-> profile_name']
              /\ pc' = IF terms = <<>> THEN "finish" ELSE "loop"
              /\ outcome' = outcome
         ELSE /\ oci_config' = oci_config
              /\ Raise(r, "from_file")

\* oci_secret: self.set_options; oci_config = self._get_oci_config().  The
\* compartment_id and vault_id options are handed to the service unread.
SecretResolveAuth ==
    /\ pc = "resolve_auth"
    /\ flavor = "secret"
    /\ LoadConfig
    /\ UNCHANGED <<inputs, missing, denied, signer, signers_built, loopvars>>

\* instance lookup: the OCI_CLI_AUTH switch picks the file, the signer, or neither
InstanceResolveAuth ==
    /\ pc = "resolve_auth"
    /\ flavor = "instance"
    /\ LET auth_type == DictGet(environ, "OCI_CLI_AUTH", S_api_key) IN
       IF UsesProfile(auth_type)
       THEN LoadConfig /\ UNCHANGED <<signer, signers_built>>
       ELSE /\ IF UsesSigner(auth_type)
               THEN /\ signer' = "InstancePrincipalsSecurityTokenSigner"
                    /\ signers_built' = signers_built + 1
               ELSE UNCHANGED <<signer, signers_built>>
            /\ pc' = IF terms = <<>> THEN "finish" ELSE "loop"
            /\ UNCHANGED <<oci_config, profile_name, file_reads, outcome>>
    /\ UNCHANGED <<inputs, missing, denied, loopvars>>

\* oci_secret: get_secret for terms[i], then the missing and ambiguity checks
ListSecrets ==
    /\ pc = "loop"
    /\ flavor = "secret"
    /\ \E r \in ListResponses :
         /\ service_calls' = service_calls + 1
         /\ listed' = Append(listed, r)
         /\ IF r.kind = "ServiceError"
            THEN /\ Raise("AnsibleError", "ServiceError")
                 /\ UNCHANGED <<i, secrets_list, j, warnings>>
            ELSE IF MissingAborts(r.data, missing)
            THEN /\ secrets_list' = r.data
                 /\ Raise("AnsibleError", "ResourceNotFound")
                 /\ UNCHANGED <<i, j, warnings>>
            ELSE /\ secrets_list' = r.data
                 /\ j' = 1
                 /\ warnings' = warnings
                       \o (IF MissingWarns(r.data, missing)
                           THEN <<[kind |-> "Skipping", term |-> terms[i]]>>
                           ELSE <<>>)
                       \o (IF Len(r.data) > 1
                           THEN <<[kind |-> "MoreThanOne", term |-> terms[i]]>>
                           ELSE <<>>)
                 /\ IF r.data = <<>>
                    THEN NextTerm
                    ELSE pc' = "fetch" /\ UNCHANGED <<i, outcome>>
    /\ UNCHANGED <<inputs, missing, denied, auth, secrets, credentials>>

\* oci_secret: secrets.append(get_secret_data(oci_config, secret)) for one secret
FetchSecretData ==
    /\ pc = "fetch"
    /\ flavor = "secret"
    /\ service_calls' = service_calls + 1
    /\ LET res == get_secret_data(secrets_list[j]) IN
       IF res.kind = "raise"
       THEN /\ IF res.type = "ServiceError"
               THEN Raise("AnsibleError", "ServiceError")
               ELSE Raise(res.type, res.reason)
            /\ UNCHANGED <<i, j, secrets>>
       ELSE /\ secrets' = ListAppend(secrets, res.value)
            /\ IF j < Len(secrets_list)
               THEN j' = j + 1 /\ UNCHANGED <<i, pc, outcome>>
               ELSE j' = j /\ NextTerm
    /\ UNCHANGED <<inputs, missing, denied, auth, secrets_list, credentials,
                   warnings, listed>>

\* instance lookup: credentials.append(get_instance_credentials(...)) for
\* terms[i], then the emptiness checks on the list just appended to
GetInstanceCredentials ==
    /\ pc = "loop"
    /\ flavor = "instance"
    /\ \E r \in InstanceResponses :
         /\ service_calls' = service_calls + 1
         /\ listed' = Append(listed, r)
         /\ IF r.kind = "ServiceError"
            THEN /\ Raise("AnsibleError", "ServiceError")
                 /\ UNCHANGED <<i, credentials, warnings>>
            ELSE /\ credentials' = ListAppend(credentials, r.data)
                 /\ IF CredentialsEmpty(credentials') /\ missing = S_error
                    THEN /\ Raise("AnsibleError", "ResourceNotFound")
                         /\ UNCHANGED <<i, warnings>>
                    ELSE /\ warnings' =
                              IF CredentialsEmpty(credentials') /\ missing = S_warn
                              THEN Append(warnings,
                                          [kind |-> "Skipping", term |-> terms[i]])
                              ELSE warnings
                         /\ NextTerm
    /\ UNCHANGED <<inputs, missing, denied, auth, secrets_list, j, secrets>>

\* the join flag: one concatenated element, or the list as collected
Finish ==
    /\ pc = "finish"
    /\ LET results == IF flavor = "secret" THEN secrets ELSE credentials IN
       IF JoinRequested(kwargs)
       THEN LET jr == Joined(results) IN
            IF jr.kind = "raise"
            THEN Raise(jr.type, jr.reason)
            ELSE Return(jr.value)
       ELSE Return(results)
    /\ UNCHANGED <<inputs, missing, denied, auth, loopvars>>

Next ==
    \/ ValidateMissing
    \/ ValidateDenied
    \/ SecretResolveAuth
    \/ InstanceResolveAuth
    \/ ListSecrets
    \/ FetchSecretData
    \/ GetInstanceCredentials
    \/ Finish

Spec == Init /\ [][Next]_vars

TypeOK ==
    /\ pc \in {"validate_missing", "validate_denied", "resolve_auth", "loop",
               "fetch", "finish", "returned", "raised"}
    /\ i \in 1..(MaxTerms + 1)
    /\ Len(listed) <= Len(terms)

(***************************************************************************)
(* Properties                                                              *)
(***************************************************************************)
Policies == {S_error, S_warn, S_skip}
Terminated == pc \in {"returned", "raised"}
AbortedWith(type, reason) ==
    /\ pc = "raised"
    /\ outcome = [kind |-> "raise", type |-> type, reason |-> reason, value |-> <<>>]
ReturnedList(lst) ==
    /\ pc = "returned"
    /\ outcome = [kind |-> "return", type |-> "list", reason |-> "", value |-> lst]
JoinOption == DictGet(kwargs, "join", NoneVal)
AuthSwitch == DictGet(environ, "OCI_CLI_AUTH", S_api_key)

\* C1: with on_denied warn or skip, a service-level denial or error for a
\* term does not abort the run.
C1_DeniedWarnSkipDoesNotAbort ==
    (denied \in {S_warn, S_skip}) => ~AbortedWith("AnsibleError", "ServiceError")

\* C2: oci_secret with on_missing=error: once the service lists no secret for
\* some term, the run is aborted with the fatal failure and returns no list,
\* not even the payloads collected for earlier terms.
C2_MissingErrorAbortsWithoutResult ==
    (/\ flavor = "secret"
     /\ missing = S_error
     /\ \E k \in 1..Len(listed) : listed[k].kind = "data" /\ listed[k].data = <<>>)
    => AbortedWith("AnsibleError", "ResourceNotFound")

C2_Witness ==
    /\ flavor = "secret"
    /\ missing = S_error
    /\ Len(listed) = 2
    /\ listed[2] = [kind |-> "data", data |-> <<>>]
    /\ secrets /= <<>>
    /\ pc = "raised"

RECURSIVE PayloadsOf(_)
\* the payloads of the secrets of one listing, in listing order
PayloadsOf(ids) ==
    IF ids = <<>> THEN <<>>
    ELSE <<get_secret_data(Head(ids)).value>> \o PayloadsOf(Tail(ids))

RECURSIVE ExpectedSecrets(_)
\* the payloads of every listing, in the order the terms were looked up
ExpectedSecrets(ls) ==
    IF ls = <<>> THEN <<>>
    ELSE PayloadsOf(Head(ls).data) \o ExpectedSecrets(Tail(ls))

\* C3: an oci_secret run that returns without join returns, over the terms in
\* input order, the payloads of every secret the service listed for the term,
\* in listing order; a term with no match contributes nothing, a term with two
\* matches contributes both.
C3_ResultIsConcatenationInOrder ==
    (pc = "returned" /\ flavor = "secret" /\ ~Truthy(JoinOption))
    => /\ Len(listed) = Len(terms)
       /\ outcome.kind = "return"
       /\ outcome.value = ExpectedSecrets(listed)

C3_Witness ==
    /\ pc = "returned"
    /\ flavor = "secret"
    /\ ~Truthy(JoinOption)
    /\ Len(terms) = 2
    /\ listed[1].data = <<>>
    /\ listed[2].data = <<"s_e", "s_a">>
    /\ outcome.value = <<Str(<<233>>), Str(<<97>>)>>

\* C4: with on_missing and on_denied both strings, every combination of error,
\* warn and skip (in any letter case) passes validation, and any other value
\* aborts the run with the configuration error before the credential file is
\* read, a signer is built or the service is called.
C4_ValidationPrecedesExternalActivity ==
    LET om == DictGet(kwargs, "on_missing", Str(S_error))
        od == DictGet(kwargs, "on_denied", Str(S_error))
        valid == Lower(om.val) \in Policies /\ Lower(od.val) \in Policies
        config_error == pc = "raised" /\ outcome.reason \in {"on_missing", "on_denied"}
    IN  (om.type = "str" /\ od.type = "str")
        => /\ valid => ~config_error
           /\ ~valid =>
                /\ file_reads = 0 /\ signers_built = 0 /\ service_calls = 0
                /\ pc \in {"validate_missing", "validate_denied", "raised"}
                /\ pc = "raised" => config_error /\ outcome.type = "AnsibleError"

C4_Witness ==
    /\ DictGet(kwargs, "on_missing", Str(S_error)) = Str(S_Warn)
    /\ DictGet(kwargs, "on_denied", Str(S_error)) = Str(S_bogus)
    /\ AbortedWith("AnsibleError", "on_denied")
    /\ file_reads = 0 /\ signers_built = 0 /\ service_calls = 0

\* C5 as stated: in either plugin, with the switch on instance_principal the
\* credential file is never read and the run proceeds with a signer.
C5_AmbientNeverReadsFileAnyFlavor ==
    (AuthSwitch = S_instance_principal)
    => /\ file_reads = 0
       /\ pc \in {"loop", "fetch", "finish", "returned"} => signer /= "None"

\* C5: in the instance-credentials lookup, with the switch on
\* instance_principal the credential file is never read and every step after
\* authentication runs with exactly one signer built.
C5_AmbientNeverReadsFileInstance ==
    (flavor = "instance" /\ AuthSwitch = S_instance_principal)
    => /\ file_reads = 0
       /\ oci_config = EmptyConfig
       /\ (pc \in {"loop", "finish", "returned"} \/ service_calls > 0)
            => signer /= "None" /\ signers_built = 1

C5_Witness ==
    /\ flavor = "instance"
    /\ AuthSwitch = S_instance_principal
    /\ pc = "returned"
    /\ service_calls > 0
    /\ signer = "InstancePrincipalsSecurityTokenSigner"
    /\ file_reads = 0

\* C6: whenever a lookup has been issued, exactly one of the profile-based
\* config and the signer is in use, whatever the value of the switch.
C6_ExactlyOneAuthContext ==
    (service_calls > 0) => (oci_config.loaded /= (signer /= "None"))

\* C7: an unexpected response status on the secret-payload fetch aborts the
\* run with the host engine's fatal failure type.
C7_UnexpectedStatusIsAnsibleError ==
    (pc = "raised" /\ outcome.reason = "status") => outcome.type = "AnsibleError"

RECURSIVE ConcatAll(_)
\* the texts of a list of payloads, one after the other, nothing in between
ConcatAll(l) ==
    IF l = <<>> THEN <<>>
    ELSE ConcatAll(SubSeq(l, 1, Len(l) - 1)) \o l[Len(l)].val

\* C8: a run that returns with join truthy returns exactly one element, the
\* separator-free concatenation of the resolved payloads in result order (the
\* empty string for none); without join it returns the result list itself.
C8_JoinReturnsSingleConcatenation ==
    LET results == IF flavor = "secret" THEN secrets ELSE credentials IN
    (pc = "returned")
    => /\ outcome.kind = "return"
       /\ IF Truthy(JoinOption)
          THEN /\ Len(outcome.value) = 1
               /\ outcome.value[1] = Str(ConcatAll(results))
          ELSE outcome.value = results

C8_Witness ==
    /\ pc = "returned"
    /\ JoinOption = TrueVal
    /\ secrets = <<Str(<<233>>), Str(<<97>>), Str(<<97>>)>>
    /\ outcome.value = <<Str(<<233, 97, 97>>)>>

\* C9: the profile name given to the credential-file loader is the
\* OCI_CONFIG_PROFILE override when set, else the oci_profile option when not
\* None, else 'DEFAULT'.
C9_ProfilePrecedence ==
    LET env_set == "OCI_CONFIG_PROFILE" \in DOMAIN environ
        opt_set == DictGet(kwargs, "oci_profile", NoneVal) /= NoneVal
    IN  (file_reads > 0)
        => /\ (env_set /\ opt_set) => profile_name = Str(S_envp)
           /\ (env_set /\ ~opt_set) => profile_name = Str(S_envp)
           /\ (~env_set /\ opt_set) => profile_name = Str(S_prod)
           /\ (~env_set /\ ~opt_set) => profile_name = Str(S_DEFAULT)
           /\ oci_config.loaded => oci_config.profile = profile_name

C9_Witness ==
    /\ "OCI_CONFIG_PROFILE" \in DOMAIN environ
    /\ "oci_profile" \in DOMAIN kwargs
    /\ file_reads = 1
    /\ oci_config = [loaded |-> TRUE, profile |-> Str(S_envp)]

\* how an instance-credentials run that got past authentication must end,
\* given only the service's answers and the join flag
InstanceExpected ==
    LET data == [k \in 1..Len(listed) |-> listed[k].data] IN
    IF \E k \in 1..Len(listed) : listed[k].kind = "ServiceError"
    THEN [kind |-> "raise", type |-> "AnsibleError", reason |-> "ServiceError",
          value |-> <<>>]
    ELSE IF ~Truthy(JoinOption)
    THEN [kind |-> "return", type |-> "list", reason |-> "", value |-> data]
    ELSE IF \E k \in 1..Len(data) : data[k].type /= "str"
    THEN [kind |-> "raise", type |-> "TypeError", reason |-> "join", value |-> <<>>]
    ELSE [kind |-> "return", type |-> "list", reason |-> "",
          value |-> <<Str(ConcatAll(data))>>]

\* C10: in the instance-credentials lookup the missing policy never acts: no
\* 'ResourceNotFound' abort, no 'Skipping' warning, and the end of the run is
\* fixed by the terms, the service's answers and the join flag alone, so runs
\* differing only in on_missing end alike.
C10_MissingPolicyUnreachable ==
    (flavor = "instance")
    => /\ warnings = <<>>
       /\ outcome.reason /= "ResourceNotFound"
       /\ (Terminated /\ (service_calls > 0 \/ pc = "returned"))
            => /\ outcome = InstanceExpected
               /\ outcome.kind = "return" => Len(listed) = Len(terms)

C10_Witness ==
    /\ flavor = "instance"
    /\ missing = S_error
    /\ pc = "returned"
    /\ Len(listed) = 2
    /\ outcome.value = <<Str(S_user), InstanceCredentialsObj>>

====
